---- MODULE Spec2Model ----
(***************************************************************************)
(* Flight state machine of the drone web controller (src/app.py): the      *)
(* process-wide flight_state dictionary, the Flask request handlers that   *)
(* read and write it, the pattern worker thread started by /pattern, and   *)
(* the pattern coroutine that the worker submits to the background event   *)
(* loop.                                                                   *)
(*                                                                         *)
(* Each request handler is one action.  The vehicle link (MAVSDK) is the   *)
(* environment: every call made through it either returns or fails, and    *)
(* the outcome is an input of the action that makes the call.  The HTTP    *)
(* response and the vehicle-link calls of the step just taken are kept in  *)
(* the variable event, so that properties can speak about them.            *)
(*                                                                         *)
(* Strings whose characters matter (the shape of a pattern request, which  *)
(* the handler lower-cases) are sequences of ASCII codes.                  *)
(*                                                                         *)
(* Specifications: Spec (handlers as single steps, with the workers),      *)
(* FairSpec (Spec with the workers scheduled fairly), LogSpec (the log     *)
(* ring alone), PatSpec (one fly_<shape> coroutine of src/patterns.py,     *)
(* one vehicle-link call per step) and ThreadSpec (/pattern handled by     *)
(* concurrent request threads).                                            *)
(***************************************************************************)
EXTENDS Integers, Sequences, FiniteSets, TLC

VARIABLES
    is_flying,          \* flight_state["is_flying"]
    is_offboard,        \* flight_state["is_offboard"]
    current_pattern,    \* flight_state["current_pattern"]: None or Some(shape)
    mission_count,      \* flight_state["mission_count"]
    logs,               \* flight_state["logs"], newest first
    velocity_enabled,   \* flight_state["velocity_enabled"]
    tasks,              \* the pattern workers started so far, with their coroutines
    event,              \* the step just taken: operation, response, vehicle-link calls
    nreq,               \* the number of requests handled so far
    fly,                \* one fly_<shape> coroutine of patterns.py, followed call by call
    threads             \* the request threads inside pattern(), between its check and its set

vars == <<is_flying, is_offboard, current_pattern, mission_count, logs,
          velocity_enabled, tasks, event, nreq, fly, threads>>

\* The fields of flight_state.
flight_state == <<is_flying, is_offboard, current_pattern, mission_count, logs,
                  velocity_enabled>>

----------------------------------------------------------------------------
(* Bounds *)

\* The number of HTTP requests of a run.
MaxRequests == 3

\* The number of add_log and clear_logs calls of a run of the log ring alone.
MaxLogCalls == 55

----------------------------------------------------------------------------
(* Values *)

\* Python's None and a present value, for flight_state["current_pattern"].
None == {}
Some(v) == {v}

\* The keys of pattern_map, as ASCII strings.
square   == <<115, 113, 117, 97, 114, 101>>
triangle == <<116, 114, 105, 97, 110, 103, 108, 101>>
circle   == <<99, 105, 114, 99, 108, 101>>
star     == <<115, 116, 97, 114>>
infinity == <<105, 110, 102, 105, 110, 105, 116, 121>>
heart    == <<104, 101, 97, 114, 116>>
spiral   == <<115, 112, 105, 114, 97, 108>>
figure8  == <<102, 105, 103, 117, 114, 101, 56>>

pattern_map == {square, triangle, circle, star, infinity, heart, spiral, figure8}

\* str.lower() on an ASCII string.
Lower(s) == [i \in 1..Len(s) |-> IF s[i] \in 65..90 THEN s[i] + 32 ELSE s[i]]

\* The shapes a request may carry: "square", "Circle", "SQUARE", "hexagon".
RawShapes == {square,
              <<67, 105, 114, 99, 108, 101>>,
              <<83, 81, 85, 65, 82, 69>>,
              <<104, 101, 120, 97, 103, 111, 110>>}

\* The JSON bodies of a /pattern request: the "shape" key absent or present.
Bodies == {[shape |-> None]} \cup {[shape |-> Some(s)] : s \in RawShapes}

\* data.get("shape", "square")
DataGetShape(body) ==
    IF body.shape = None THEN square ELSE CHOOSE s \in body.shape : TRUE

\* The outcome of one vehicle-link call: TRUE when it returns, FALSE when it
\* raises or does not answer within the timeout.
LinkResults == BOOLEAN

\* The capacity of the log list.
LOG_CAP == 50

\* add_log with its entry left out of the list.
add_log_details_NoInsert(l, action, status, details) == l

\* add_log with pop(0) in place of pop(): the newest entry is dropped.
add_log_details_PopFirst(l, action, status, details) ==
    LET n == <<[action |-> action, status |-> status, details |-> details]>> \o l
    IN  IF Len(n) > LOG_CAP THEN SubSeq(n, 2, Len(n)) ELSE n

\* add_log(action, status, details): insert at index 0, drop the last entry
\* past the capacity.  The timestamp of an entry is left out.
add_log_details(l, action, status, details) ==
    LET n == <<[action |-> action, status |-> status, details |-> details]>> \o l
    IN  IF Len(n) > LOG_CAP THEN SubSeq(n, 1, Len(n) - 1) ELSE n

\* add_log as the handlers call it; the text of their details is left out.
add_log(l, action, status) == add_log_details(l, action, status, <<>>)

\* run_async: whether the call raises to its caller, given whether the
\* coroutine completed.  Every exception, the timeout included, is caught and
\* None is returned.
run_async_raises(ok) == FALSE

\* One vehicle-link call and its outcome, as recorded in event.calls.
Call(name, ok) == <<name, ok>>

\* The record of a step: the operation, its HTTP status and answer, the
\* vehicle-link calls it made, and the shape its request carried (None when
\* the key is absent or the operation takes no shape).
Event(op, code, resp, calls) ==
    [op |-> op, code |-> code, resp |-> resp, calls |-> calls, arg |-> None]

PatternEvent(body, code, resp) ==
    [Event("pattern", code, resp, <<>>) EXCEPT !.arg = body.shape]

\* app.run(threaded=True): every request is handled in a thread of its own.
\* Two of them are enough for requests to overlap.
RequestThreads == {1, 2}

\* A request thread that is not inside pattern(); in Spec every handler runs
\* as one step, so threads stay idle there.
IdleThread == [pc |-> "idle"]

\* The value of fly while no coroutine is followed call by call: in Spec and
\* LogSpec a pattern coroutine is seen only through its end (coroutine_end).
NoCoroutine == [pc |-> "idle"]

----------------------------------------------------------------------------
(* Initial state *)

Init ==
    /\ is_flying = FALSE
    /\ is_offboard = FALSE
    /\ current_pattern = None
    /\ mission_count = 0
    /\ logs = <<>>
    /\ velocity_enabled = FALSE
    /\ tasks = <<>>
    /\ event = Event("init", 0, "", <<>>)
    /\ nreq = 0
    /\ fly = NoCoroutine
    /\ threads = [t \in RequestThreads |-> IdleThread]

\* A request is accepted by the server: one more request handled.
Request ==
    /\ nreq < MaxRequests
    /\ nreq' = nreq + 1
    /\ UNCHANGED <<fly, threads>>

----------------------------------------------------------------------------
(* Request handlers *)

\* POST /arm
arm(ok) ==
    LET raised == run_async_raises(ok)
    IN  /\ Request
        /\ logs' = add_log(logs, "ARM", IF raised THEN "error" ELSE "success")
        /\ event' = Event("arm", IF raised THEN 500 ELSE 200,
                          IF raised THEN "error" ELSE "armed",
                          <<Call("action.arm", ok)>>)
        /\ UNCHANGED <<is_flying, is_offboard, current_pattern, mission_count,
                       velocity_enabled, tasks>>

\* The opening of disarm, land, rtl and emergency: stop offboard if active.
\* Gives whether offboard.stop() was called and whether the handler left its
\* try block there.
StopIfOffboard(stopOk) ==
    [called |-> is_offboard,
     raised |-> is_offboard /\ run_async_raises(stopOk),
     calls  |-> IF is_offboard THEN <<Call("offboard.stop", stopOk)>> ELSE <<>>]

\* POST /disarm
disarm(stopOk, ok) ==
    LET s      == StopIfOffboard(stopOk)
        raised == s.raised \/ run_async_raises(ok)
    IN  /\ Request
        /\ is_offboard' = IF s.called /\ ~s.raised THEN FALSE ELSE is_offboard
        /\ is_flying' = IF raised THEN is_flying ELSE FALSE
        /\ velocity_enabled' = IF raised THEN velocity_enabled ELSE FALSE
        /\ current_pattern' = IF raised THEN current_pattern ELSE None
        /\ logs' = add_log(logs, "DISARM", IF raised THEN "error" ELSE "success")
        /\ event' = Event("disarm", IF raised THEN 500 ELSE 200,
                          IF raised THEN "error" ELSE "disarmed",
                          s.calls \o (IF s.raised THEN <<>>
                                      ELSE <<Call("action.disarm", ok)>>))
        /\ UNCHANGED <<mission_count, tasks>>

\* POST /takeoff
takeoff(armOk, ok) ==
    LET raisedArm == run_async_raises(armOk)
        raised    == raisedArm \/ run_async_raises(ok)
    IN  /\ Request
        /\ is_flying' = IF raised THEN is_flying ELSE TRUE
        /\ mission_count' = IF raised THEN mission_count ELSE mission_count + 1
        /\ logs' = add_log(logs, "TAKEOFF", IF raised THEN "error" ELSE "success")
        /\ event' = Event("takeoff", IF raised THEN 500 ELSE 200,
                          IF raised THEN "error" ELSE "taking off",
                          <<Call("action.arm", armOk)>>
                          \o (IF raisedArm THEN <<>>
                              ELSE <<Call("action.takeoff", ok)>>))
        /\ UNCHANGED <<is_offboard, current_pattern, velocity_enabled, tasks>>

\* POST /land
land(stopOk, ok) ==
    LET s      == StopIfOffboard(stopOk)
        raised == s.raised \/ run_async_raises(ok)
    IN  /\ Request
        /\ is_offboard' = IF s.called /\ ~s.raised THEN FALSE ELSE is_offboard
        /\ is_flying' = IF raised THEN is_flying ELSE FALSE
        /\ current_pattern' = IF raised THEN current_pattern ELSE None
        /\ velocity_enabled' = IF raised THEN velocity_enabled ELSE FALSE
        /\ logs' = add_log(logs, "LAND", IF raised THEN "error" ELSE "success")
        /\ event' = Event("land", IF raised THEN 500 ELSE 200,
                          IF raised THEN "error" ELSE "landing",
                          s.calls \o (IF s.raised THEN <<>>
                                      ELSE <<Call("action.land", ok)>>))
        /\ UNCHANGED <<mission_count, tasks>>

\* POST /rtl
rtl(stopOk, ok) ==
    LET s      == StopIfOffboard(stopOk)
        raised == s.raised \/ run_async_raises(ok)
    IN  /\ Request
        /\ is_offboard' = IF s.called /\ ~s.raised THEN FALSE ELSE is_offboard
        /\ current_pattern' = IF raised THEN current_pattern ELSE None
        /\ velocity_enabled' = IF raised THEN velocity_enabled ELSE FALSE
        /\ logs' = add_log(logs, "RTL", IF raised THEN "error" ELSE "success")
        /\ event' = Event("rtl", IF raised THEN 500 ELSE 200,
                          IF raised THEN "error" ELSE "returning to launch",
                          s.calls \o (IF s.raised THEN <<>>
                                      ELSE <<Call("action.return_to_launch", ok)>>))
        /\ UNCHANGED <<is_flying, mission_count, tasks>>

\* POST /emergency
emergency(stopOk, ok) ==
    LET s      == StopIfOffboard(stopOk)
        raised == s.raised \/ run_async_raises(ok)
    IN  /\ Request
        /\ is_offboard' = IF s.called /\ ~s.raised THEN FALSE ELSE is_offboard
        /\ is_flying' = IF raised THEN is_flying ELSE FALSE
        /\ current_pattern' = IF raised THEN current_pattern ELSE None
        /\ velocity_enabled' = IF raised THEN velocity_enabled ELSE FALSE
        /\ logs' = add_log(logs, "EMERGENCY", IF raised THEN "error" ELSE "success")
        /\ event' = Event("emergency", IF raised THEN 500 ELSE 200,
                          IF raised THEN "error" ELSE "emergency stop",
                          s.calls \o (IF s.raised THEN <<>>
                                      ELSE <<Call("action.kill", ok)>>))
        /\ UNCHANGED <<mission_count, tasks>>

\* PatternBusy with the check of line 196 left out.
PatternBusy_NoCheck == FALSE

\* /pattern, line 196: a pattern is already running.
PatternBusy == current_pattern /= None

\* ShapeKnown with the membership test of line 217 left out.
ShapeKnown_Any(shape) == TRUE

\* /pattern, line 217: the lower-cased shape is a key of pattern_map.
ShapeKnown(shape) == shape \in pattern_map

\* A worker thread started by /pattern and the coroutine it submits to the
\* event loop.  coro: "running", "ok" (returned) or "raised"; worker:
\* "waiting" (blocked in run_async) or "done".
Task(shape) == [shape |-> shape, coro |-> "running", worker |-> "waiting"]

\* POST /pattern.  wellFormed: the body is a JSON object whose shape is a
\* string and whose size, height and speed convert to float.
pattern(body, wellFormed) ==
    /\ Request
    /\ IF PatternBusy
       THEN /\ event' = PatternEvent(body, 400, "Pattern already running")
            /\ UNCHANGED <<flight_state, tasks>>
       ELSE IF ~wellFormed
       THEN \* the outer except clause
            /\ current_pattern' = None
            /\ logs' = add_log(logs, "PATTERN", "error")
            /\ event' = PatternEvent(body, 500, "error")
            /\ UNCHANGED <<is_flying, is_offboard, mission_count,
                           velocity_enabled, tasks>>
       ELSE LET shape == Lower(DataGetShape(body))
            IN  IF ~ShapeKnown(shape)
                THEN /\ logs' = add_log(logs, "PATTERN", "error")
                     /\ event' = PatternEvent(body, 400, "unknown shape")
                     /\ UNCHANGED <<is_flying, is_offboard, current_pattern,
                                    mission_count, velocity_enabled, tasks>>
                ELSE /\ current_pattern' = Some(shape)
                     /\ logs' = add_log(logs, "PATTERN", "started")
                     /\ tasks' = Append(tasks, Task(shape))
                     /\ event' = PatternEvent(body, 200, "pattern started")
                     /\ UNCHANGED <<is_flying, is_offboard, mission_count,
                                    velocity_enabled>>

\* The pattern coroutine fly_<shape> of task i ends in the event loop: it
\* returns (ok) or raises after its teardown.
coroutine_end(i, ok) ==
    /\ i \in 1..Len(tasks)
    /\ tasks[i].coro = "running"
    /\ tasks' = [tasks EXCEPT ![i].coro = IF ok THEN "ok" ELSE "raised"]
    /\ event' = Event("coroutine", 0, IF ok THEN "returned" ELSE "raised", <<>>)
    /\ UNCHANGED <<flight_state, nreq, fly, threads>>

\* What run_async observes in the worker of task t: the coroutine's result, its
\* exception, or the 30 s timeout of Future.result while it is still running.
Outcome(t) ==
    CASE t.coro = "ok"      -> "result"
      [] t.coro = "raised"  -> "exception"
      [] t.coro = "running" -> "timeout"

\* ExecutePatternFinally without the reset of current_pattern.
ExecutePatternFinally_KeepsPattern ==
    /\ UNCHANGED current_pattern
    /\ is_offboard' = FALSE

\* The finally clause of execute_pattern.
ExecutePatternFinally ==
    /\ current_pattern' = None
    /\ is_offboard' = FALSE

\* execute_pattern, the worker thread of task i: run_async returns, the
\* terminal entry is logged, the finally clause resets the state.
execute_pattern(i) ==
    /\ i \in 1..Len(tasks)
    /\ tasks[i].worker = "waiting"
    /\ LET raised == run_async_raises(tasks[i].coro = "ok")
       IN  logs' = add_log(logs, "PATTERN", IF raised THEN "error" ELSE "success")
    /\ ExecutePatternFinally
    /\ tasks' = [tasks EXCEPT ![i].worker = "done"]
    /\ event' = Event("execute_pattern", 0, Outcome(tasks[i]), <<>>)
    /\ UNCHANGED <<is_flying, mission_count, velocity_enabled, nreq, fly, threads>>

\* /offboard/start, line 250: offboard is already active.
OffboardStartActive == is_offboard

\* POST /offboard/start.  The coroutine start_offboard sends the seed velocity
\* setpoint and then requests offboard mode; the second call is not made when
\* the first raises.
offboard_start(seedOk, startOk) ==
    /\ Request
    /\ IF OffboardStartActive
       THEN /\ event' = Event("offboard_start", 200, "offboard already active", <<>>)
            /\ UNCHANGED <<flight_state, tasks>>
       ELSE LET calls  == <<Call("offboard.set_velocity_body", seedOk)>>
                          \o (IF seedOk THEN <<Call("offboard.start", startOk)>>
                              ELSE <<>>)
                raised == run_async_raises(seedOk /\ startOk)
            IN  /\ is_offboard' = IF raised THEN is_offboard ELSE TRUE
                /\ velocity_enabled' = IF raised THEN velocity_enabled ELSE TRUE
                /\ is_flying' = IF raised THEN is_flying ELSE TRUE
                /\ logs' = add_log(logs, "OFFBOARD",
                                   IF raised THEN "error" ELSE "success")
                /\ event' = Event("offboard_start", IF raised THEN 500 ELSE 200,
                                  IF raised THEN "error" ELSE "offboard started",
                                  calls)
                /\ UNCHANGED <<current_pattern, mission_count, tasks>>

\* OffboardStopInactive with the early return of line 274 left out.
OffboardStopInactive_NoCheck == FALSE

\* /offboard/stop, line 274: offboard is not active.
OffboardStopInactive == ~is_offboard

\* POST /offboard/stop
offboard_stop(ok) ==
    /\ Request
    /\ IF OffboardStopInactive
       THEN /\ event' = Event("offboard_stop", 200, "offboard not active", <<>>)
            /\ UNCHANGED <<flight_state, tasks>>
       ELSE LET raised == run_async_raises(ok)
            IN  /\ is_offboard' = IF raised THEN is_offboard ELSE FALSE
                /\ velocity_enabled' = IF raised THEN velocity_enabled ELSE FALSE
                /\ logs' = add_log(logs, "OFFBOARD",
                                   IF raised THEN "error" ELSE "success")
                /\ event' = Event("offboard_stop", IF raised THEN 500 ELSE 200,
                                  IF raised THEN "error" ELSE "offboard stopped",
                                  <<Call("offboard.stop", ok)>>)
                /\ UNCHANGED <<is_flying, current_pattern, mission_count, tasks>>

\* /velocity, line 294: the command is refused.
VelocityRefused == ~is_offboard \/ ~velocity_enabled

\* POST /velocity.  wellFormed: the body is a JSON object whose vx, vy, vz and
\* yaw_rate convert to float.  set_velocity catches the link's exception itself.
velocity(wellFormed, ok) ==
    /\ Request
    /\ event' = IF VelocityRefused
                THEN Event("velocity", 400, "offboard mode not active", <<>>)
                ELSE IF ~wellFormed
                THEN Event("velocity", 500, "error", <<>>)
                ELSE Event("velocity", 200, "velocity set",
                           <<Call("offboard.set_velocity_body", ok)>>)
    /\ UNCHANGED <<flight_state, tasks>>

\* POST /logs/clear
clear_logs ==
    /\ Request
    /\ logs' = add_log(<<>>, "SYSTEM", "success")
    /\ event' = Event("clear_logs", 200, "logs cleared", <<>>)
    /\ UNCHANGED <<is_flying, is_offboard, current_pattern, mission_count,
                   velocity_enabled, tasks>>

----------------------------------------------------------------------------
(* Specification *)

Next ==
    \/ \E ok \in LinkResults : arm(ok)
    \/ \E stopOk, ok \in LinkResults : disarm(stopOk, ok)
    \/ \E armOk, ok \in LinkResults : takeoff(armOk, ok)
    \/ \E stopOk, ok \in LinkResults : land(stopOk, ok)
    \/ \E stopOk, ok \in LinkResults : rtl(stopOk, ok)
    \/ \E stopOk, ok \in LinkResults : emergency(stopOk, ok)
    \/ \E body \in Bodies, wellFormed \in BOOLEAN : pattern(body, wellFormed)
    \/ \E seedOk, startOk \in LinkResults : offboard_start(seedOk, startOk)
    \/ \E ok \in LinkResults : offboard_stop(ok)
    \/ \E wellFormed \in BOOLEAN, ok \in LinkResults : velocity(wellFormed, ok)
    \/ clear_logs
    \/ \E i \in 1..MaxRequests, ok \in BOOLEAN : coroutine_end(i, ok)
    \/ \E i \in 1..MaxRequests : execute_pattern(i)

Spec == Init /\ [][Next]_vars

\* The worker is a thread of its own and run_async returns within its timeout:
\* a waiting worker eventually runs to the end of execute_pattern.
FairSpec == Spec /\ \A i \in 1..MaxRequests : WF_vars(execute_pattern(i))

----------------------------------------------------------------------------
(* The log ring alone: add_log and clear_logs called any number of times.    *)
(* The details of an entry is the number of the call that made it, so that   *)
(* entries can be told apart; nreq counts the calls.                         *)

\* One call of add_log, as any handler or worker makes it.
add_log_call ==
    /\ nreq < MaxLogCalls
    /\ logs' = add_log_details(logs, "ENTRY", "success", nreq)
    /\ nreq' = nreq + 1
    /\ event' = Event("add_log", 0, "", <<>>)
    /\ UNCHANGED <<is_flying, is_offboard, current_pattern, mission_count,
                   velocity_enabled, tasks, fly, threads>>

\* POST /logs/clear: the list is emptied, then the SYSTEM entry is added.
clear_logs_call ==
    /\ nreq < MaxLogCalls
    /\ logs' = add_log_details(<<>>, "SYSTEM", "success", nreq)
    /\ nreq' = nreq + 1
    /\ event' = Event("clear_logs", 200, "logs cleared", <<>>)
    /\ UNCHANGED <<is_flying, is_offboard, current_pattern, mission_count,
                   velocity_enabled, tasks, fly, threads>>

LogNext == add_log_call \/ clear_logs_call

LogSpec == Init /\ [][LogNext]_vars

----------------------------------------------------------------------------
(* The pattern coroutines of src/patterns.py, one vehicle-link call per      *)
(* step.  Every await of drone.offboard.* either returns or raises; the      *)
(* outcome is the input ok of the action that makes the call.  fly.trace is  *)
(* the list of calls made so far, consecutive identical successful calls     *)
(* folded into one entry with a count n.  Sleeps are not modelled: a         *)
(* transmission of fly_to_position or of a curve loop stands for 0.1 s.      *)
(*                                                                           *)
(* Lengths are integers and delay is in hundredths of a second.  A setpoint  *)
(* is <<north, east, down, yaw>>; a coordinate that is not a rational of     *)
(* the arguments (sqrt, cos, sin, atan2) is kept as the text of its source   *)
(* expression, and such setpoints are told apart by their loop index.        *)

Sizes   == {1, 4}
Heights == {-5}
Delays  == {30, 56, 130}

Max(a, b) == IF a >= b THEN a ELSE b

VertexShapes == {square, triangle, star}
CurveShapes  == {circle, infinity, heart, spiral, figure8}

\* for _ in range(3) of prepare_offboard
ORIGIN_RESENDS == 3
\* for _ in range(20) of fly_to_position and of the final hold of a curve
HOLD_STEPS == 20

square_points_Swapped(size, height) ==
    << <<0, 0, height, 0>>, <<0, size, height, 90>>, <<size, size, height, 180>>,
       <<size, 0, height, 270>>, <<0, 0, height, 0>> >>

\* points of fly_square, with the height they are flown at
square_points(size, height) ==
    << <<0, 0, height, 0>>, <<size, 0, height, 90>>, <<size, size, height, 180>>,
       <<0, size, height, 270>>, <<0, 0, height, 0>> >>

triangle_points(size, height) ==
    << <<0, 0, height, 60>>, <<size, 0, height, 180>>,
       <<"size/2", "size*sqrt(3)/2", height, 300>>, <<0, 0, height, 0>> >>

\* the order in which fly_star visits points[0..4]
star_order == <<0, 2, 4, 1, 3, 0>>

star_points(size, height) ==
    [k \in 1..Len(star_order) |->
        <<"points[i].x", "points[i].y", height, "atan2(y,x)", star_order[k]>>]

points(shape, size, height) ==
    CASE shape = square   -> square_points(size, height)
      [] shape = triangle -> triangle_points(size, height)
      [] shape = star     -> star_points(size, height)

flight_steps_NoFloor(shape, delay) ==
    IF shape = star THEN (25 * delay) \div 100 ELSE (3 * delay) \div 10

\* steps = int(duration * 10) of fly_to_position, duration being the
\* flight_time of the vertex loop
flight_steps(shape, delay) ==
    IF shape = star THEN Max(2500, 25 * delay) \div 100
                    ELSE Max(300, 3 * delay) \div 10

\* fly_to_position(..., 3.0) ahead of a curve: int(3.0 * 10)
transit_steps == (300 \div 10)

\* the steps argument that execute_pattern passes for a curve
steps_arg(shape) ==
    CASE shape = circle   -> 30
      [] shape = infinity -> 40
      [] shape = heart    -> 50
      [] shape = spiral   -> 30
      [] shape = figure8  -> 40

\* total_steps = max(steps, floor)
total_steps(shape) ==
    CASE shape = circle   -> Max(steps_arg(shape), 100)
      [] shape = infinity -> Max(steps_arg(shape), 120)
      [] shape = heart    -> Max(steps_arg(shape), 150)
      [] shape = spiral   -> Max(steps_arg(shape), 100)
      [] shape = figure8  -> Max(steps_arg(shape), 120)

repeat_count_Rounded(delay) == Max(3, (delay + 5) \div 10)

\* repeat_count = max(3, int(delay * 10)); delay is positive here, so int()
\* is the floor
repeat_count(delay) == Max(3, delay \div 10)

\* where fly_to_position takes the vehicle ahead of a curve
start_point(shape, size, height) ==
    CASE shape = circle   -> <<size, 0, height, 90>>
      [] shape = infinity -> <<size, 0, height, 0>>
      [] shape = heart    -> <<"start_x", "start_y", height, 90>>
      [] shape = spiral   -> <<0, 0, height, 0>>
      [] shape = figure8  -> <<"start_x", "start_y", height, 90>>

curve_point(shape, height, i) == <<"x", "y", height, "yaw", i>>

final_point(shape, size, height) ==
    CASE shape = circle   -> <<"end_x", "end_y", height, 90>>
      [] shape = infinity -> <<size, 0, height, 0>>
      [] shape = heart    -> <<"start_x", "start_y", height, 90>>
      [] shape = spiral   -> <<"end_x", "end_y", height, 90>>
      [] shape = figure8  -> <<"start_x", "start_y", height, 90>>

\* the coroutine object that pattern_map[shape]() makes, before its first step
Coroutine(shape, size, height, delay) ==
    [shape |-> shape, size |-> size, height |-> height, delay |-> delay,
     pc |-> "seed", idx |-> 0, tick |-> 0,
     trace |-> <<>>, err |-> None, result |-> "running"]

\* one awaited call of drone.offboard, added to the trace
Called(trace, call, stage, part, idx, sp, ok) ==
    LET last == trace[Len(trace)]
    IN  IF /\ ok
           /\ trace /= <<>>
           /\ last.ok
           /\ last.call = call
           /\ last.stage = stage
           /\ last.part = part
           /\ last.idx = idx
        THEN [trace EXCEPT ![Len(trace)].n = @ + 1]
        ELSE Append(trace, [call |-> call, stage |-> stage, part |-> part,
                            idx |-> idx, sp |-> sp, ok |-> ok, n |-> 1])

\* A call inside the try block raises: control moves to the handler
\* "except Exception as e" of fly_<shape>, which stops offboard mode and
\* raises e again.
on_exception_NoTeardown(f, e) == [f EXCEPT !.pc = "done", !.err = Some(e), !.result = "raised"]

on_exception_Retry(f, e) == f

on_exception(f, e) == [f EXCEPT !.pc = "except", !.err = Some(e)]

\* the state after a setpoint call at the current position of the coroutine
Setpoint(f, stage, part, sp, ok, next) ==
    LET g == [f EXCEPT !.trace = Called(f.trace, "set_position_ned", stage, part, f.idx, sp, ok)]
    IN  IF ok THEN [g EXCEPT !.pc = next.pc, !.idx = next.idx, !.tick = next.tick]
              ELSE on_exception(g, "set_position_ned")

At(pc, idx, tick) == [pc |-> pc, idx |-> idx, tick |-> tick]

PatUnchanged ==
    UNCHANGED <<is_flying, is_offboard, current_pattern, mission_count, logs,
                velocity_enabled, tasks, event, nreq, threads>>

\* prepare_offboard, first statement: the setpoint sent before offboard.start()
prepare_seed(ok) ==
    /\ fly.pc = "seed"
    /\ fly' = Setpoint(fly, "prime", "seed", <<0, 0, fly.height, 0>>, ok, At("start", 0, 0))
    /\ PatUnchanged

\* prepare_offboard: await drone.offboard.start()
prepare_start(ok) ==
    /\ fly.pc = "start"
    /\ LET g == [fly EXCEPT !.trace = Called(fly.trace, "start", "prime", "start", 0, <<>>, ok)]
       IN  fly' = IF ok THEN [g EXCEPT !.pc = "origin"] ELSE on_exception(g, "start")
    /\ PatUnchanged

origin_next_TwoResends(f) ==
    IF f.tick + 1 < 2 THEN At("origin", 0, f.tick + 1) ELSE At("travel", 0, 0)

\* prepare_offboard: for _ in range(3), then the body of fly_<shape>, which
\* for every shape begins with a fly_to_position
origin_next(f) ==
    IF f.tick + 1 < ORIGIN_RESENDS THEN At("origin", 0, f.tick + 1) ELSE At("travel", 0, 0)

prepare_origin(ok) ==
    /\ fly.pc = "origin"
    /\ fly' = Setpoint(fly, "prime", "origin", <<0, 0, fly.height, 0>>, ok, origin_next(fly))
    /\ PatUnchanged

\* the target and the travel steps of the fly_to_position in progress: a
\* vertex of the vertex loop, or the start of a curve
target(f) ==
    IF f.shape \in VertexShapes THEN points(f.shape, f.size, f.height)[f.idx + 1]
                                ELSE start_point(f.shape, f.size, f.height)

travel_steps(f) ==
    IF f.shape \in VertexShapes THEN flight_steps(f.shape, f.delay) ELSE transit_steps

fly_stage(f) == IF f.shape \in VertexShapes THEN "stream" ELSE "transit"

\* what follows the last hold transmission of a fly_to_position
after_position(f) ==
    IF f.shape \in VertexShapes
    THEN IF f.idx + 1 < Len(points(f.shape, f.size, f.height))
         THEN At("travel", f.idx + 1, 0)
         ELSE At("teardown", f.idx, 0)
    ELSE At("curve", 0, 0)

\* fly_to_position: steps transmissions toward the target, then 20 more
fly_to_position(ok) ==
    /\ fly.pc \in {"travel", "hold"}
    /\ LET next == IF fly.pc = "travel"
                   THEN IF fly.tick + 1 < travel_steps(fly)
                        THEN At("travel", fly.idx, fly.tick + 1)
                        ELSE At("hold", fly.idx, 0)
                   ELSE IF fly.tick + 1 < HOLD_STEPS
                        THEN At("hold", fly.idx, fly.tick + 1)
                        ELSE after_position(fly)
       IN  fly' = Setpoint(fly, fly_stage(fly), fly.pc, target(fly), ok, next)
    /\ PatUnchanged

curve_next_SkipOdd(f) ==
    IF f.tick + 1 < repeat_count(f.delay) THEN At("curve", f.idx, f.tick + 1)
    ELSE IF f.idx + 2 < total_steps(f.shape) + 1 THEN At("curve", f.idx + 2, 0)
    ELSE At("final", f.idx, 0)

\* for i in range(total_steps + 1): for _ in range(repeat)
curve_next(f) ==
    IF f.tick + 1 < repeat_count(f.delay) THEN At("curve", f.idx, f.tick + 1)
    ELSE IF f.idx + 1 < total_steps(f.shape) + 1 THEN At("curve", f.idx + 1, 0)
    ELSE At("final", f.idx, 0)

\* one transmission of sample i of a curve
stream_curve(ok) ==
    /\ fly.pc = "curve"
    /\ fly' = Setpoint(fly, "stream", "sample", curve_point(fly.shape, fly.height, fly.idx),
                       ok, curve_next(fly))
    /\ PatUnchanged

\* the 20 transmissions at the end of a curve
hold_final(ok) ==
    /\ fly.pc = "final"
    /\ LET next == IF fly.tick + 1 < HOLD_STEPS THEN At("final", fly.idx, fly.tick + 1)
                                                ELSE At("teardown", fly.idx, 0)
       IN  fly' = Setpoint(fly, "final", "final",
                           final_point(fly.shape, fly.size, fly.height), ok, next)
    /\ PatUnchanged

stop_offboard_raises_Reraise(ok) == ~ok

\* stop_offboard: "except Exception" around drone.offboard.stop() prints and
\* returns
stop_offboard_raises(ok) == FALSE

\* await stop_offboard(drone): the last statement of the try block, or the
\* one in the exception handler, which is followed by "raise"
stop_offboard(ok) ==
    /\ fly.pc \in {"teardown", "except"}
    /\ LET g == [fly EXCEPT !.trace = Called(fly.trace, "stop", "teardown", "stop", 0, <<>>, ok)]
       IN  fly' = IF fly.pc = "teardown"
                  THEN IF stop_offboard_raises(ok)
                       THEN on_exception(g, "stop")
                       ELSE [g EXCEPT !.pc = "done", !.result = "returned"]
                  ELSE [g EXCEPT !.pc = "done", !.result = "raised"]
    /\ PatUnchanged

PatInit ==
    /\ is_flying = FALSE
    /\ is_offboard = FALSE
    /\ current_pattern = None
    /\ mission_count = 0
    /\ logs = <<>>
    /\ velocity_enabled = FALSE
    /\ tasks = <<>>
    /\ event = Event("init", 0, "", <<>>)
    /\ nreq = 0
    /\ threads = [t \in RequestThreads |-> IdleThread]
    /\ fly \in {Coroutine(shape, size, height, delay) :
                  shape \in pattern_map, size \in Sizes, height \in Heights, delay \in Delays}

PatNext ==
    \/ \E ok \in LinkResults : prepare_seed(ok)
    \/ \E ok \in LinkResults : prepare_start(ok)
    \/ \E ok \in LinkResults : prepare_origin(ok)
    \/ \E ok \in LinkResults : fly_to_position(ok)
    \/ \E ok \in LinkResults : stream_curve(ok)
    \/ \E ok \in LinkResults : hold_final(ok)
    \/ \E ok \in LinkResults : stop_offboard(ok)

PatSpec == PatInit /\ [][PatNext]_vars

----------------------------------------------------------------------------
(* POST /pattern under app.run(threaded=True): the handler reads               *)
(* current_pattern at line 196 and writes it at line 221, with the parsing of  *)
(* the request in between, and other request threads may run between the two.  *)
(* Each thread takes the two halves of pattern() as two steps.                 *)

\* pattern(), lines 196-203: the already-running check and the parsing of
\* the body.  wellFormed as in pattern.
pattern_check(t, body, wellFormed) ==
    /\ threads[t].pc = "idle"
    /\ nreq < MaxRequests
    /\ nreq' = nreq + 1
    /\ IF current_pattern /= None
       THEN /\ event' = PatternEvent(body, 400, "Pattern already running")
            /\ UNCHANGED <<flight_state, threads>>
       ELSE IF ~wellFormed
       THEN \* the outer except clause
            /\ current_pattern' = None
            /\ logs' = add_log(logs, "PATTERN", "error")
            /\ event' = PatternEvent(body, 500, "error")
            /\ UNCHANGED <<is_flying, is_offboard, mission_count,
                           velocity_enabled, threads>>
       ELSE /\ event' = PatternEvent(body, 0, "checked")
            /\ threads' = [threads EXCEPT ![t] =
                              [pc |-> "checked", shape |-> Lower(DataGetShape(body)), body |-> body]]
            /\ UNCHANGED flight_state
    /\ UNCHANGED <<tasks, fly>>

\* pattern(), lines 217-239: the shape test, the write of current_pattern and
\* the start of the worker thread
pattern_set(t) ==
    /\ threads[t].pc = "checked"
    /\ LET shape == threads[t].shape
           body  == threads[t].body
       IN  IF shape \notin pattern_map
           THEN /\ logs' = add_log(logs, "PATTERN", "error")
                /\ event' = PatternEvent(body, 400, "unknown shape")
                /\ UNCHANGED <<current_pattern, tasks>>
           ELSE /\ current_pattern' = Some(shape)
                /\ logs' = add_log(logs, "PATTERN", "started")
                /\ tasks' = Append(tasks, Task(shape))
                /\ event' = PatternEvent(body, 200, "pattern started")
    /\ threads' = [threads EXCEPT ![t] = IdleThread]
    /\ UNCHANGED <<is_flying, is_offboard, mission_count, velocity_enabled, nreq, fly>>

ThreadNext ==
    \/ \E t \in RequestThreads, body \in Bodies, wellFormed \in BOOLEAN :
          pattern_check(t, body, wellFormed)
    \/ \E t \in RequestThreads : pattern_set(t)
    \/ \E i \in 1..MaxRequests, ok \in BOOLEAN : coroutine_end(i, ok)
    \/ \E i \in 1..MaxRequests : execute_pattern(i)

ThreadSpec == Init /\ [][ThreadNext]_vars

----------------------------------------------------------------------------
(* Properties *)

\* The step taken is the handling of operation op.  Every request increments
\* nreq and every worker step changes tasks, so no such step stutters.
Handled(op) == event'.op = op

\* Some vehicle-link call of the step taken failed.
SomeCallFailed(calls) == \E k \in 1..Len(calls) : ~calls[k][2]

\* The step put exactly one entry, of the given status, at the head of the log:
\* the entries behind it are the former ones, the oldest dropped at capacity.
AppendedOne(status) ==
    /\ Len(logs') = IF Len(logs) < LOG_CAP THEN Len(logs) + 1 ELSE LOG_CAP
    /\ logs'[1].status = status
    /\ SubSeq(logs', 2, Len(logs')) = SubSeq(logs, 1, Len(logs') - 1)

\* C1: whenever current_pattern is not None, a /pattern request is answered
\* 400 'Pattern already running', starts no worker and no coroutine, makes no
\* vehicle-link call and leaves current_pattern as it was.
C1_StartPatternMutualExclusion ==
    [][(current_pattern /= None /\ Handled("pattern"))
        => /\ event'.code = 400
           /\ event'.resp = "Pattern already running"
           /\ event'.calls = <<>>
           /\ tasks' = tasks
           /\ current_pattern' = current_pattern]_vars

\* C1: a /pattern request has been rejected while the worker of the running
\* pattern is still waiting.
C1_Witness ==
    /\ event.op = "pattern"
    /\ event.resp = "Pattern already running"
    /\ current_pattern /= None
    /\ \E i \in 1..Len(tasks) : tasks[i].worker = "waiting"

\* C2: in every reachable state velocity_enabled implies is_offboard.
C2_VelocityEnabledImpliesOffboard == velocity_enabled => is_offboard

\* C3: in every reachable state current_pattern not None implies is_offboard.
C3_PatternImpliesOffboard == current_pattern /= None => is_offboard

\* C4: a /velocity request handled in a state where is_offboard,
\* velocity_enabled and current_pattern = None do not all hold is rejected,
\* changes no flight state and makes no vehicle-link call.
C4_VelocityOnlyWhenEligible ==
    [][(Handled("velocity")
        /\ ~(is_offboard /\ velocity_enabled /\ current_pattern = None))
        => /\ event'.code >= 400
           /\ event'.calls = <<>>
           /\ flight_state' = flight_state]_vars

\* C5: in the state reached by each of /offboard/stop, /land, /rtl, /emergency
\* and /disarm, current_pattern is None and velocity_enabled is false.
C5_StopStyleResets ==
    event.op \in {"offboard_stop", "land", "rtl", "emergency", "disarm"}
        => (current_pattern = None /\ ~velocity_enabled)

\* C6: every state with current_pattern not None is eventually followed by one
\* with current_pattern None; the worker's last step, whatever its coroutine
\* did, leaves current_pattern None and is_offboard false; and a /pattern
\* request handled right after it is not rejected as 'Pattern already running'.
C6_PatternEventuallyCleared ==
    /\ (current_pattern /= None) ~> (current_pattern = None)
    /\ [][Handled("execute_pattern")
           => (current_pattern' = None /\ ~is_offboard')]_vars
    /\ [][(event.op = "execute_pattern" /\ Handled("pattern"))
           => event'.resp /= "Pattern already running"]_vars

\* C6: a worker whose coroutine raised has finished, and the state is reset.
C6_Witness ==
    /\ event.op = "execute_pattern"
    /\ event.resp = "exception"
    /\ current_pattern = None
    /\ ~is_offboard

\* What C7 says of a rejected /pattern request: an error response, exactly one
\* log entry of status error, current_pattern None, no worker, no link call.
RejectedWithOneErrorEntry ==
    /\ event'.code >= 400
    /\ AppendedOne("error")
    /\ current_pattern' = None
    /\ tasks' = tasks
    /\ event'.calls = <<>>

\* C7 as stated: a /pattern request whose shape is outside the eight keys of
\* pattern_map is rejected with one error entry.
C7_ShapeOutsideMapRejected ==
    [][(/\ Handled("pattern")
        /\ event'.arg /= None
        /\ event'.arg \cap pattern_map = {})
        => RejectedWithOneErrorEntry]_vars

\* C7, amended: a /pattern request handled while current_pattern is None, whose
\* shape in lower case is outside the eight keys of pattern_map, is rejected
\* with one error entry.
C7_LoweredShapeOutsideMapRejected ==
    [][(/\ Handled("pattern")
        /\ current_pattern = None
        /\ event'.arg /= None
        /\ {Lower(s) : s \in event'.arg} \cap pattern_map = {})
        => RejectedWithOneErrorEntry]_vars

\* C7: a well-formed request with an unknown shape has been rejected.
C7_Witness ==
    /\ event.op = "pattern"
    /\ event.resp = "unknown shape"
    /\ event.arg /= None
    /\ current_pattern = None
    /\ logs /= <<>>
    /\ logs[1].action = "PATTERN"
    /\ logs[1].status = "error"

\* C8: an /offboard/stop request handled while is_offboard is false is
\* answered 200, makes no vehicle-link call and changes no field of
\* flight_state.
C8_StopOffboardIdempotent ==
    [][(~is_offboard /\ Handled("offboard_stop"))
        => /\ event'.code = 200
           /\ event'.calls = <<>>
           /\ flight_state' = flight_state]_vars

\* C8: /offboard/stop has returned 'offboard not active' in a state that has
\* something to lose: a pattern is running.
C8_Witness ==
    /\ event.op = "offboard_stop"
    /\ event.resp = "offboard not active"
    /\ ~is_offboard
    /\ current_pattern /= None

\* C9: an /offboard/start request handled while is_offboard is true is
\* answered 200 with no vehicle-link call and no state change; one whose seed
\* setpoint or offboard-start call fails is answered with an error and leaves
\* is_offboard, velocity_enabled and is_flying unchanged.
C9_StartOffboardIdempotentOrUnchanged ==
    [][Handled("offboard_start")
        => /\ is_offboard
               => /\ event'.code = 200
                  /\ event'.calls = <<>>
                  /\ flight_state' = flight_state
           /\ (~is_offboard /\ SomeCallFailed(event'.calls))
               => /\ event'.code >= 400
                  /\ is_offboard' = is_offboard
                  /\ velocity_enabled' = velocity_enabled
                  /\ is_flying' = is_flying]_vars

\* C10: an /arm request whose arm call fails changes no flight state besides
\* the log and appends one log entry, of status error.
C10_ArmFailureLogsError ==
    [][(Handled("arm") /\ SomeCallFailed(event'.calls))
        => /\ AppendedOne("error")
           /\ <<is_flying, is_offboard, current_pattern, mission_count,
                velocity_enabled>>'
              = <<is_flying, is_offboard, current_pattern, mission_count,
                  velocity_enabled>>]_vars

\* The operations C11 calls transition attempts.
TransitionOps ==
    {"arm", "disarm", "takeoff", "land", "rtl", "emergency", "offboard_start",
     "offboard_stop", "pattern", "velocity"}

\* The step put exactly one entry, of whatever status, at the head of the log.
AppendedOneEntry == \E status \in {"started", "success", "error"} : AppendedOne(status)

SilentAttempt ==
    \/ Handled("velocity")
    \/ Handled("pattern") /\ current_pattern /= None
    \/ Handled("offboard_start") /\ is_offboard
    \/ Handled("offboard_stop") /\ ~is_offboard

C13_PatternOnlyWhenArmed ==
    [][(Handled("pattern")
        /\ (nreq = 0 \/ event.op \in {"disarm", "land", "emergency"}))
        => (event'.code >= 400 /\ tasks' = tasks)]_vars

\* C20: in every reachable state at most one pattern coroutine is running in
\* the event loop.
C20_AtMostOneCoroutineInFlight ==
    Cardinality({i \in 1..Len(tasks) : tasks[i].coro = "running"}) <= 1

\* C12: after any sequence of add_log and clear_logs calls the log holds at
\* most LOG_CAP entries, the entry of the latest call is at index 0, entries are
\* in newest-first order, and a call made at capacity removes the oldest entry
\* and keeps the others.
C12_LogRing ==
    /\ [](/\ Len(logs) <= LOG_CAP
          /\ nreq > 0 => (logs /= <<>> /\ logs[1].details = nreq - 1)
          /\ \A i, j \in 1..Len(logs) :
                i < j => logs[i].details > logs[j].details)
    /\ [][(Handled("add_log") /\ Len(logs) = LOG_CAP)
           => SubSeq(logs', 2, LOG_CAP) = SubSeq(logs, 1, LOG_CAP - 1)]_vars

\* C12: the log is full and its oldest entry is neither the first entry ever
\* made nor the entry of a clear_logs call: an older one has been removed.
C12_Witness ==
    /\ Len(logs) = LOG_CAP
    /\ logs[LOG_CAP].action = "ENTRY"
    /\ logs[LOG_CAP].details > 0

----------------------------------------------------------------------------
(* Properties of the pattern coroutines (PatSpec) *)

Finished == fly.pc = "done"

\* the positions in the trace of the calls that raised, offboard.stop() aside
Faults == {k \in DOMAIN fly.trace : ~fly.trace[k].ok /\ fly.trace[k].call /= "stop"}

\* the positions in the trace of the offboard.stop() calls
Teardowns == {k \in DOMAIN fly.trace : fly.trace[k].call = "stop"}

\* the setpoints of the vertex loop or of the curve loop, in trace order
Streamed == SelectSeq(fly.trace, LAMBDA e : e.stage = "stream")

\* C14: fly_square with size s > 0 sends its vertex setpoints in the order
\* (0,0), (s,0), (s,s), (0,s), (0,0) with yaw 0, 90, 180, 270, 0, all at the
\* commanded height; a run that completes has sent exactly these five
\* waypoints, each for at least 30 transmissions (3.0 s at 10 Hz).
C14_SquareWaypoints ==
    fly.shape = square =>
        LET s == fly.size
            h == fly.height
            expected == << <<0, 0, h, 0>>, <<s, 0, h, 90>>, <<s, s, h, 180>>,
                           <<0, s, h, 270>>, <<0, 0, h, 0>> >>
            sent(i) == {k \in DOMAIN Streamed : Streamed[k].idx = i - 1 /\ Streamed[k].ok}
        IN  /\ \A k \in DOMAIN Streamed :
                  /\ Streamed[k].idx \in 0..4
                  /\ Streamed[k].sp = expected[Streamed[k].idx + 1]
                  /\ k > 1 => Streamed[k].idx \in {Streamed[k-1].idx, Streamed[k-1].idx + 1}
            /\ (Finished /\ fly.result = "returned") =>
                  \A i \in 1..5 :
                      /\ sent(i) /= {}
                      /\ \E k \in sent(i) : Streamed[k].n >= 30

C14_Witness ==
    /\ Finished
    /\ fly.result = "returned"
    /\ fly.shape = square
    /\ fly.size = 4
    /\ Len(Streamed) = 10

\* C15: a pattern coroutine that has returned or raised has called
\* stop_offboard exactly once, and one that is still running has not called
\* it yet, whether the run succeeded, failed in priming or failed at a
\* setpoint.
C15_TeardownExactlyOnce ==
    /\ Finished => (Cardinality(Teardowns) = 1 /\ \A k \in Teardowns : fly.trace[k].n = 1)
    /\ ~Finished => Teardowns = {}

C15_Witness ==
    /\ Finished
    /\ fly.result = "raised"
    /\ fly.err = Some("start")
    /\ Cardinality(Teardowns) = 1

\* the place of a stage in the pipeline prime, transit, stream, final, teardown
Rank(stage) ==
    CASE stage = "prime"    -> 1
      [] stage = "transit"  -> 2
      [] stage = "stream"   -> 3
      [] stage = "final"    -> 4
      [] stage = "teardown" -> 5

\* the seed setpoint, the activation and the three origin setpoints have all
\* succeeded
Primed ==
    /\ Len(fly.trace) >= 3
    /\ \A k \in 1..3 : fly.trace[k].ok /\ fly.trace[k].stage = "prime"
    /\ fly.trace[2].call = "start"
    /\ fly.trace[3].n = 3

\* C16: the calls of a pattern run follow the order prime, transit, stream,
\* final hold, teardown; no transit, vertex, sample or final setpoint is sent
\* before priming has completed; the vertex or sample index starts at 0 and
\* grows by one, and a run that returns has sent every index up to the last;
\* nothing is sent after the offboard.stop() of teardown.
C16_PhaseOrder ==
    LET st == Streamed
        primed == Primed
    IN  /\ \A k \in DOMAIN fly.trace :
              /\ k > 1 => Rank(fly.trace[k-1].stage) <= Rank(fly.trace[k].stage)
              /\ Rank(fly.trace[k].stage) \in 2..4 => (k > 3 /\ primed)
              /\ fly.trace[k].call = "stop" => k = Len(fly.trace)
        /\ \A k \in DOMAIN st :
              /\ k = 1 => st[k].idx = 0
              /\ k > 1 => st[k].idx \in {st[k-1].idx, st[k-1].idx + 1}
        /\ (Finished /\ fly.result = "returned") =>
              /\ st /= <<>>
              /\ st[Len(st)].idx =
                     IF fly.shape \in CurveShapes THEN total_steps(fly.shape)
                     ELSE IF fly.shape = square THEN 4
                     ELSE IF fly.shape = triangle THEN 3 ELSE 5
              /\ fly.shape \in CurveShapes =>
                     \E k \in DOMAIN fly.trace : fly.trace[k].stage = "final"

C16_Witness ==
    /\ Finished
    /\ fly.result = "returned"
    /\ fly.shape = infinity
    /\ Streamed[Len(Streamed)].idx = 120
    /\ fly.trace[Len(fly.trace)].call = "stop"

\* C17: offboard.start() is requested only as the second call, after exactly
\* one successful seed setpoint at (0, 0, height); the origin setpoint is then
\* sent at (0, 0, height) and no other call is made until it has been sent
\* exactly 3 times.
C17_PrimingProtocol ==
    \A k \in DOMAIN fly.trace :
        /\ fly.trace[k].call = "start" =>
              /\ k = 2
              /\ fly.trace[1].call = "set_position_ned"
              /\ fly.trace[1].ok
              /\ fly.trace[1].n = 1
              /\ fly.trace[1].sp = <<0, 0, fly.height, 0>>
        /\ fly.trace[k].part = "origin" =>
              /\ k \in {3, 4}
              /\ fly.trace[2].call = "start" /\ fly.trace[2].ok
              /\ fly.trace[k].sp = <<0, 0, fly.height, 0>>
              /\ fly.trace[k].n <= 3
              /\ k = 4 => ~fly.trace[k].ok
        /\ (k > 3 /\ fly.trace[k].stage \notin {"prime", "teardown"}) =>
              /\ fly.trace[3].part = "origin"
              /\ fly.trace[3].n = 3

C17_Witness ==
    /\ Len(fly.trace) = 4
    /\ fly.trace[2].call = "start"
    /\ fly.trace[3].part = "origin"
    /\ fly.trace[3].n = 3
    /\ fly.trace[4].stage = "transit"

\* C18: once offboard.start() or a setpoint call has raised, the coroutine
\* makes no further call but the offboard.stop() of teardown, and it ends by
\* raising the error of the call that failed.
C18_FailStop ==
    \A k \in Faults :
        /\ \A j \in DOMAIN fly.trace : j > k => (j = k + 1 /\ fly.trace[j].call = "stop")
        /\ fly.pc \in {"except", "done"}
        /\ fly.pc = "except" => Len(fly.trace) = k
        /\ Finished =>
              /\ Len(fly.trace) = k + 1
              /\ fly.result = "raised"
              /\ fly.err = Some(fly.trace[k].call)

C18_Witness ==
    /\ Finished
    /\ fly.result = "raised"
    /\ \E k \in Faults : fly.trace[k].stage = "stream" /\ fly.trace[k].idx > 0
    /\ fly.trace[Len(fly.trace)].call = "stop"

\* C19: offboard.stop() failing in teardown never shows in the outcome: a run
\* with a failed call ends by raising the error of that call, and a run
\* without one returns normally, whether offboard.stop() succeeded or not.
C19_TeardownNeverRaises ==
    Finished =>
        /\ fly.err /= Some("stop")
        /\ Faults = {} => (fly.result = "returned" /\ fly.err = None)
        /\ Faults /= {} =>
              /\ fly.result = "raised"
              /\ \E k \in Faults : fly.err = Some(fly.trace[k].call)

C19_Witness ==
    /\ Finished
    /\ fly.result = "returned"
    /\ fly.trace[Len(fly.trace)].call = "stop"
    /\ ~fly.trace[Len(fly.trace)].ok

\* the travel transmissions of the vertices whose travel loop has run to its end
TravelDone ==
    {k \in DOMAIN fly.trace :
        /\ fly.trace[k].part = "travel"
        /\ fly.trace[k].stage = "stream"
        /\ k < Len(fly.trace)
        /\ fly.trace[k+1].part = "hold"}

\* C25 as stated: for square, triangle and star the travel loop of every
\* vertex runs int(10 * max(3.0, 3 * delay)) times, never fewer than 30.
C25_VertexHoldThreeSeconds ==
    fly.shape \in VertexShapes =>
        \A k \in TravelDone :
            /\ fly.trace[k].n = (IF 3 * fly.delay > 300 THEN 3 * fly.delay ELSE 300) \div 10
            /\ fly.trace[k].n >= 30

\* C25, amended: for square and triangle the travel loop of every vertex runs
\* int(10 * max(3.0, 3 * delay)) times, never fewer than 30; for star it runs
\* int(10 * max(2.5, 2.5 * delay)) times, never fewer than 25.
C25_VertexHoldPerShape ==
    fly.shape \in VertexShapes =>
        \A k \in TravelDone :
            IF fly.shape = star
            THEN /\ fly.trace[k].n =
                       (IF 25 * fly.delay > 2500 THEN 25 * fly.delay ELSE 2500) \div 100
                 /\ fly.trace[k].n >= 25
            ELSE /\ fly.trace[k].n =
                       (IF 3 * fly.delay > 300 THEN 3 * fly.delay ELSE 300) \div 10
                 /\ fly.trace[k].n >= 30

C25_Witness ==
    /\ fly.shape = star
    /\ fly.delay = 30
    /\ Finished
    /\ fly.result = "returned"
    /\ Cardinality(TravelDone) = 6
    /\ \A k \in TravelDone : fly.trace[k].n = 25

\* the samples of a curve whose repeat loop has run to its end
SamplesDone ==
    {k \in DOMAIN fly.trace :
        /\ fly.trace[k].part = "sample"
        /\ k < Len(fly.trace)
        /\ fly.trace[k+1].ok
        /\ fly.trace[k+1].call = "set_position_ned"}

\* round(delay * 10) of a delay in hundredths, ties to even as in Python
Round10(d) ==
    LET q == d \div 10
        r == d % 10
    IN  IF r > 5 \/ (r = 5 /\ q % 2 = 1) THEN q + 1 ELSE q

\* C26 as stated: every sample of a curve is sent max(3, round(delay * 10))
\* consecutive times before the loop moves to the next sample.
C26_SampleRepeatRounded ==
    fly.shape \in CurveShapes =>
        \A k \in SamplesDone :
            fly.trace[k].n = (IF Round10(fly.delay) > 3 THEN Round10(fly.delay) ELSE 3)

\* C26, amended: every sample of a curve is sent max(3, int(delay * 10))
\* consecutive times, the product truncated and not rounded, before the loop
\* moves to the next sample.
C26_SampleRepeatTruncated ==
    fly.shape \in CurveShapes =>
        \A k \in SamplesDone :
            fly.trace[k].n = (IF fly.delay \div 10 > 3 THEN fly.delay \div 10 ELSE 3)

C26_Witness ==
    /\ fly.shape = circle
    /\ fly.delay = 56
    /\ Finished
    /\ fly.result = "returned"
    /\ Cardinality(SamplesDone) = 101
    /\ \A k \in SamplesDone : fly.trace[k].n = 5

----------------------------------------------------------------------------
(* Properties of the pattern worker (Spec) *)

\* the step is the end of execute_pattern in the worker of task i
WorkerEnds(i) ==
    /\ i \in DOMAIN tasks
    /\ tasks[i].worker = "waiting"
    /\ tasks'[i].worker = "done"

\* C22: the worker of a pattern clears current_pattern and is_offboard only
\* for its own pattern: when a worker ends while a pattern is recorded as
\* running, that pattern is the one the worker was started for, which is the
\* latest one accepted.
C22_WorkerReleasesOwnToken ==
    [][\A i \in DOMAIN tasks :
          (WorkerEnds(i) /\ current_pattern /= None) => i = Len(tasks)]_vars

\* C23: the worker resets current_pattern and is_offboard and logs its
\* terminal entry only once its coroutine has returned or raised, never while
\* the coroutine is still running.
C23_ResetAfterCoroutineEnd ==
    [][\A i \in DOMAIN tasks : WorkerEnds(i) => tasks[i].coro /= "running"]_vars

\* the pattern recorded in current_pattern has a coroutine in the event loop
PatternInFlight ==
    /\ current_pattern /= None
    /\ tasks /= <<>>
    /\ tasks[Len(tasks)].coro = "running"

\* C24: disarm, land, rtl and emergency, handled while offboard mode is on or
\* while a pattern coroutine is in flight, call offboard.stop() first and
\* their primary action second, whether or not offboard.stop() succeeded.
C24_StopOffboardBeforePrimary ==
    [][(event'.op \in {"disarm", "land", "rtl", "emergency"} /\ nreq' /= nreq
        /\ (is_offboard \/ PatternInFlight))
         => /\ Len(event'.calls) = 2
            /\ event'.calls[1][1] = "offboard.stop"
            /\ event'.calls[2][1] /= "offboard.stop"]_vars

\* C27: the entry that the worker logs when it ends is a PATTERN entry whose
\* status is success exactly when the coroutine returned, and error when the
\* coroutine raised or had not finished when run_async gave up.
C27_TerminalEntryMatchesOutcome ==
    [][\A i \in DOMAIN tasks :
          WorkerEnds(i) =>
              /\ logs'[1].action = "PATTERN"
              /\ logs'[1].status = (IF tasks[i].coro = "ok" THEN "success" ELSE "error")]_vars

----------------------------------------------------------------------------
(* Properties of concurrent /pattern requests (ThreadSpec) *)

\* C21: the check and the set of current_pattern in pattern() act as one
\* compare-and-set: a request is accepted, and its worker started, only in a
\* state where current_pattern is None, so at most one worker is waiting for
\* a pattern at any time.
C21_AtomicAcquire ==
    /\ [](Cardinality({i \in DOMAIN tasks : tasks[i].worker = "waiting"}) <= 1)
    /\ [][Len(tasks') > Len(tasks) => current_pattern = None]_vars


====
